---- MODULE Spec2Model ----
(***************************************************************************)
(* Model of transformer_from_scratch/model.py: the encoder-decoder         *)
(* Transformer built from SelfAttention heads, MultiHeadedAttention,       *)
(* EncoderLayer / DecoderLayer and the Encoder / Decoder stacks.           *)
(*                                                                         *)
(* Activations are carried as shapes (with a provenance in the pipeline);  *)
(* attention scores, masks and attention weights are carried by value.     *)
(* A score s is represented by exp(s) up to a common positive factor: a    *)
(* finite score is a positive integer, -inf is 0.  A softmax weight is the *)
(* exact fraction num/den; den = 0 is the NaN torch.softmax returns for a  *)
(* slice that is -inf everywhere.  Dropout is left out: the ffn's Dropout   *)
(* keeps shapes, and SelfAttention.forward never applies self.dropout.     *)
(***************************************************************************)
EXTENDS Integers, Sequences, TLC

\* ------------------------------------------------------------- bounds
MaxBatch == 2
MaxLen == 3
MaxAttnLen == 2
MaxExp == 2
MaxDModel == 4
MaxHeads == 3
MaxLayers == 2

\* ------------------------------------------------- program constants
DefaultDModel == 512
DefaultNumHeads == 8
DefaultNumEncoders == 6
DefaultNumDecoders == 6
DFF == 2048

\* ------------------------------------------------------------ shapes
\* The result of a torch operation that raises on its operands' shapes.
ShapeError == <<>>

IsShape(s) == s # ShapeError

\* Two sizes broadcast when they are equal or one of them is 1.
BroadcastDim(a, b) == a = b \/ a = 1 \/ b = 1

\* torch broadcasting of two 3-d shapes.
Broadcast(s, t) ==
    IF ~IsShape(s) \/ ~IsShape(t) THEN ShapeError
    ELSE IF \A d \in 1..3 : BroadcastDim(s[d], t[d])
         THEN [d \in 1..3 |-> IF s[d] = 1 THEN t[d] ELSE s[d]]
         ELSE ShapeError

\* Tensor.expand(*target): a dimension is kept, or stretched from size 1.
Expand(s, target) ==
    IF ~IsShape(s) THEN ShapeError
    ELSE IF \A d \in 1..3 : s[d] = target[d] \/ s[d] = 1
         THEN target
         ELSE ShapeError

\* torch.bmm: (b, n, m) x (b, m, p) -> (b, n, p); no broadcasting.
Bmm(s, t) ==
    IF ~IsShape(s) \/ ~IsShape(t) THEN ShapeError
    ELSE IF s[1] = t[1] /\ s[3] = t[2]
         THEN <<s[1], s[2], t[3]>>
         ELSE ShapeError

\* Tensor.transpose(1, 2)
Transpose(s) == IF ~IsShape(s) THEN ShapeError ELSE <<s[1], s[3], s[2]>>

\* nn.Linear(in_features, out_features) applied to the last axis.
Linear(in_features, out_features, s) ==
    IF ~IsShape(s) THEN ShapeError
    ELSE IF s[3] = in_features
         THEN <<s[1], s[2], out_features>>
         ELSE ShapeError

\* nn.LayerNorm(d_model): normalises the last axis, which must be d_model.
LayerNorm(d_model, s) ==
    IF ~IsShape(s) THEN ShapeError
    ELSE IF s[3] = d_model THEN s ELSE ShapeError

\* x + y of two activations (residual add).
Add(s, t) == Broadcast(s, t)

RECURSIVE SeqSum(_)
SeqSum(s) == IF Len(s) = 0 THEN 0 ELSE s[1] + SeqSum(Tail(s))

RECURSIVE SeqProd(_)
SeqProd(s) == IF Len(s) = 0 THEN 1 ELSE s[1] * SeqProd(Tail(s))

\* torch.cat(list, dim) of 3-d tensors; dim is 0-based as in torch.  The
\* sizes must agree on every axis but dim, along which they add up.
Cat(shapes, dim) ==
    IF Len(shapes) = 0 THEN ShapeError
    ELSE IF \E h \in 1..Len(shapes) : ~IsShape(shapes[h]) THEN ShapeError
    ELSE IF \A h \in 1..Len(shapes), d \in 1..3 :
                d = dim + 1 \/ shapes[h][d] = shapes[1][d]
         THEN [d \in 1..3 |->
                 IF d = dim + 1
                 THEN SeqSum([h \in 1..Len(shapes) |-> shapes[h][d]])
                 ELSE shapes[1][d]]
         ELSE ShapeError

\* ----------------------------------------------------- value tensors
\* The index triples <<b, i, j>> of a 3-d shape.
Idx(shape) == (1..shape[1]) \X (1..shape[2]) \X (1..shape[3])

\* A 3-d tensor held by value: its shape and its entries at[b][i][j], given
\* as a function f of the index triples.
Tensor3(shape, f) ==
    [shape |-> shape,
     at |-> [b \in 1..shape[1] |-> [i \in 1..shape[2] |->
                [j \in 1..shape[3] |-> f[<<b, i, j>>]]]]]

ErrorTensor == [shape |-> ShapeError, at |-> <<>>]

\* Index into an axis of size n under broadcasting.
BIdx(i, n) == IF n = 1 THEN 1 ELSE i

At(t, b, i, j) ==
    t.at[BIdx(b, t.shape[1])][BIdx(i, t.shape[2])][BIdx(j, t.shape[3])]

\* A mask argument: name "None" is Python's None; otherwise a 2-d 0/1
\* tensor of shape <<batch, length>> with entries at[b][j].
NoneMask == [name |-> "None", shape |-> <<>>, at |-> <<>>]

\* A mask stretched to the 3-d shape s, or the error mask[...].expand raised.
ExpandedTo(s, mask) ==
    IF ~IsShape(s) THEN ErrorTensor
    ELSE Tensor3(s, [t \in Idx(s) |->
            mask.at[BIdx(t[1], mask.shape[1])][BIdx(t[3], mask.shape[2])]])

\* mask[:, None, :].expand(bs, tgt_len, seq_len)
ExpandedMask(mask, bs, tgt_len, seq_len) ==
    ExpandedTo(Expand(<<mask.shape[1], 1, mask.shape[2]>>, <<bs, tgt_len, seq_len>>),
               mask)

\* 1 - torch.triu(torch.ones((tgt_len, tgt_len)), diagonal=1), expanded over
\* the batch: 0 strictly above the diagonal (j > i), 1 elsewhere.
SubsequentMask(bs, tgt_len) ==
    Tensor3(<<bs, tgt_len, tgt_len>>,
            [t \in Idx(<<bs, tgt_len, tgt_len>>) |-> IF t[3] > t[2] THEN 0 ELSE 1])

\* scores filled with -inf (exp-score 0) where m is 0, at the shape s both
\* were broadcast to.
MaskedFillTo(s, scores, m) ==
    IF ~IsShape(s) THEN ErrorTensor
    ELSE Tensor3(s, [t \in Idx(s) |->
            IF At(m, t[1], t[2], t[3]) = 0 THEN 0 ELSE At(scores, t[1], t[2], t[3])])

\* scores.masked_fill(m == 0, -inf): out of place, so both operands are
\* broadcast to their common shape.
MaskedFill(scores, m) ==
    MaskedFillTo(Broadcast(scores.shape, m.shape), scores, m)

\* torch.softmax(scores, dim) on exp-scores; dim is 0-based as in torch
\* (1 = the query axis, 2 = the key axis).  Each weight is num/den.
Softmax(scores, dim) ==
    IF ~IsShape(scores.shape) THEN ErrorTensor
    ELSE Tensor3(scores.shape, [t \in Idx(scores.shape) |->
            [num |-> scores.at[t[1]][t[2]][t[3]],
             den |-> IF dim = 1
                     THEN SeqSum([i \in 1..scores.shape[2] |-> scores.at[t[1]][i][t[3]]])
                     ELSE SeqSum([j \in 1..scores.shape[3] |-> scores.at[t[1]][t[2]][j]])]])

IsZero(w) == w.den > 0 /\ w.num = 0
IsPositive(w) == w.den > 0 /\ w.num > 0

\* The weights w[1..n] are all defined and sum to exactly 1.
SumsToOne(w) ==
    /\ \A j \in 1..Len(w) : w[j].den > 0
    /\ SeqSum([j \in 1..Len(w) |->
          w[j].num * SeqProd([k \in 1..Len(w) |-> IF k = j THEN 1 ELSE w[k].den])])
       = SeqProd([k \in 1..Len(w) |-> w[k].den])

\* -------------------------------------------------------------- state
VARIABLES
    attn,      \* the last SelfAttention.forward call of a layer: inputs and result
    pc,        \* where the Transformer object / its forward call stands
    model,     \* the constructed Transformer: its layers and their heads
    args,      \* the arguments of the running Transformer.forward call
    frame,     \* the parameters of the running Encoder.forward / Decoder.forward
    output,    \* Encoder.forward / Decoder.forward: the local `output`
    layer_idx, \* index of the next layer of the running stack loop
    enc_out,   \* Transformer.forward: the local `enc_out`
    calls,     \* the layer calls made so far by this forward call, in order
    result     \* what Transformer.forward returned

vars == <<attn, pc, model, args, frame, output, layer_idx, enc_out, calls, result>>
pipeline_vars == <<pc, model, args, frame, output, layer_idx, enc_out, calls, result>>

\* ------------------------------------------------------ SelfAttention
\* SelfAttention.__init__(d_model, output_size)
SelfAttention_init(d_model, output_size) ==
    [d_model |-> d_model, output_size |-> output_size]

\* The axis torch.softmax is given in SelfAttention.forward.
SoftmaxDim == 1

\* (A variant that never applies the mask.)
ApplyMasksSkipped(scores, mask, bs, tgt_len, seq_len) == scores

\* Lines 116-123: with a mask, the padding mask and then the subsequent
\* (causal) mask are filled into the scores; with None the scores are kept.
ApplyMasks(scores, mask, bs, tgt_len, seq_len) ==
    IF mask.name = "None" THEN scores
    ELSE MaskedFill(MaskedFill(scores, ExpandedMask(mask, bs, tgt_len, seq_len)),
                    SubsequentMask(bs, tgt_len))

\* Lines 126-127: outputs = torch.bmm(weights, value)
Attend(weights, value) ==
    [weights |-> weights, outputs |-> Bmm(weights.shape, value)]

\* SelfAttention.forward(q, k, v, mask).  q, k, v are shapes; `scores` holds
\* the exp-scores of bmm(query, key^T) / sqrt(dim_k) entry by entry.
SelfAttention_forward(self, q, k, v, mask, scores) ==
    LET bs == q[1]
        tgt_len == q[2]
        seq_len == k[2]
        query == Linear(self.d_model, self.output_size, q)
        key == Linear(self.d_model, self.output_size, k)
        value == Linear(self.d_model, self.output_size, v)
        raw == [shape |-> Bmm(query, Transpose(key)), at |-> scores.at]
        weights == Softmax(ApplyMasks(raw, mask, bs, tgt_len, seq_len), SoftmaxDim)
    IN  Attend(weights, value)

\* ------------------------------------------- attention calls (SpecAttn)
\* The head every default-constructed layer owns.
DefaultHead ==
    SelfAttention_init(DefaultDModel, DefaultDModel \div DefaultNumHeads)

\* Mask arguments: None, or any 0/1 tensor of any batch size and length.
Masks ==
    {NoneMask} \cup
    UNION {UNION {{[name |-> "mask", shape |-> <<mb, ml>>, at |-> m] :
                     m \in [1..mb -> [1..ml -> {0, 1}]]} :
                  ml \in 1..MaxAttnLen} : mb \in 1..MaxBatch}

\* A family of score tensors: seed 0 is the constant one, seed 1 varies with
\* the batch item and the two positions.
ScoreSeeds == {0, 1}

Scores(seed, bs, tgt_len, seq_len) ==
    Tensor3(<<bs, tgt_len, seq_len>>,
            [t \in Idx(<<bs, tgt_len, seq_len>>) |->
                1 + ((seed * (t[1] + t[2] + t[3])) % MaxExp)])

\* What is kept of a head's call: where it was made, its arguments, its result.
HeadCall(site, q, k, mask, scores) ==
    [site |-> site, q |-> q, k |-> k, mask |-> mask]
        @@ SelfAttention_forward(DefaultHead, q, k, k, mask, scores)

Idle == [site |-> "idle"]

\* EncoderLayer.forward: self.attn(q=x, k=x, v=x, mask=src_mask)
EncoderLayerAttn ==
    /\ attn = Idle
    /\ \E bs \in 1..MaxBatch, n \in 1..MaxAttnLen, mask \in Masks, seed \in ScoreSeeds :
         LET x == <<bs, n, DefaultDModel>>
         IN  attn' = HeadCall("encoder_self", x, x, mask, Scores(seed, bs, n, n))
    /\ UNCHANGED pipeline_vars

\* DecoderLayer.forward: self.masked_attn(q=x, k=x, v=x, mask=tgt_mask)
DecoderLayerMaskedAttn ==
    /\ attn = Idle
    /\ \E bs \in 1..MaxBatch, n \in 1..MaxAttnLen, mask \in Masks, seed \in ScoreSeeds :
         LET x == <<bs, n, DefaultDModel>>
         IN  attn' = HeadCall("decoder_self", x, x, mask, Scores(seed, bs, n, n))
    /\ UNCHANGED pipeline_vars

\* DecoderLayer.forward: self.attn(q=x, k=enc, v=enc, mask=enc_mask)
DecoderLayerAttn ==
    /\ attn = Idle
    /\ \E bs \in 1..MaxBatch, n \in 1..MaxAttnLen, s \in 1..MaxAttnLen,
          mask \in Masks, seed \in ScoreSeeds :
         LET x == <<bs, n, DefaultDModel>>
             enc == <<bs, s, DefaultDModel>>
         IN  attn' = HeadCall("decoder_cross", x, enc, mask, Scores(seed, bs, n, s))
    /\ UNCHANGED pipeline_vars

\* ------------------------------------------------ MultiHeadedAttention
\* MultiHeadedAttention.__init__(d_model, num_heads, dropout).  ok is FALSE
\* when the constructor raises (d_model // 0).
MultiHeadedAttention_init(d_model, num_heads) ==
    IF num_heads = 0
    THEN [ok |-> FALSE, d_model |-> d_model, num_heads |-> num_heads,
          attn_output_size |-> 0, attentions |-> <<>>]
    ELSE LET attn_output_size == d_model \div num_heads
         IN  [ok |-> TRUE, d_model |-> d_model, num_heads |-> num_heads,
              attn_output_size |-> attn_output_size,
              attentions |-> [h \in 1..num_heads |->
                                SelfAttention_init(d_model, attn_output_size)]]

\* The axis the per-head outputs are concatenated along (0-based).
CatDim == 1

\* Line 93: x = self.output(x), on the concatenated tensor `cat`.
MultiHeadedAttention_output(self, q, k, mask, cat) ==
    [q |-> q, k |-> k, mask |-> mask.name, num_heads |-> self.num_heads,
     attn_output_size |-> self.attn_output_size, cat |-> cat,
     x |-> Linear(self.d_model, self.d_model, cat)]

\* MultiHeadedAttention.forward(q, k, v, mask).  Returns the tensor given to
\* the output projection (cat) and the projected result (x).  Only shapes
\* are kept of the heads' outputs, and these do not depend on the scores'
\* values: the constant scores stand for any.
MultiHeadedAttention_forward(self, q, k, v, mask) ==
    LET heads == [h \in 1..Len(self.attentions) |->
                    SelfAttention_forward(self.attentions[h], q, k, v, mask,
                                          Scores(0, q[1], q[2], k[2])).outputs]
    IN  MultiHeadedAttention_output(self, q, k, mask, Cat(heads, CatDim))

\* nn.Sequential(Linear(d_model, d_ff), ReLU, Dropout, Linear(d_ff, d_model), Dropout)
FFN(d_model, s) == Linear(DFF, d_model, Linear(d_model, DFF, s))

\* x = x + sublayer(x); x = norm(x), given the sublayer's output y
AddNorm(d_model, x, y) == LayerNorm(d_model, Add(x, y))

\* x = x + self.ffn(x); x = self.ffn_norm(x)
FFNSublayer(d_model, x) == AddNorm(d_model, x, FFN(d_model, x))

\* -------------------------------------------------------- EncoderLayer
EncoderLayer_init(d_model, num_heads) ==
    [d_model |-> d_model, attn |-> MultiHeadedAttention_init(d_model, num_heads)]

\* Lines 66-70, given the result a of the self.attn call.
EncoderLayer_sublayers(self, src, a) ==
    [x |-> FFNSublayer(self.d_model, AddNorm(self.d_model, src, a.x)),
     mha |-> <<[sub |-> "attn"] @@ a>>]

\* EncoderLayer.forward(src, src_mask) on shapes.  mha lists the attention
\* sublayer calls made, in order.
EncoderLayer_forward(self, src, src_mask) ==
    EncoderLayer_sublayers(self, src,
        MultiHeadedAttention_forward(self.attn, src, src, src, src_mask))

\* -------------------------------------------------------- DecoderLayer
DecoderLayer_init(d_model, num_heads) ==
    [d_model |-> d_model,
     masked_attn |-> MultiHeadedAttention_init(d_model, num_heads),
     attn |-> MultiHeadedAttention_init(d_model, num_heads)]

\* Lines 157-161, given the results a, c of the two attention calls and the
\* activation x going into the cross-attention sublayer.
DecoderLayer_ffn(self, a, x, c) ==
    [x |-> FFNSublayer(self.d_model, AddNorm(self.d_model, x, c.x)),
     mha |-> <<[sub |-> "masked_attn"] @@ a, [sub |-> "attn"] @@ c>>]

\* Line 157 on: self.attn(q=x, k=enc, v=enc, mask=enc_mask), reached only
\* if the first sublayer, its residual add and its norm did not raise.
DecoderLayer_cross(self, enc, enc_mask, a, x) ==
    IF ~IsShape(x)
    THEN [x |-> ShapeError, mha |-> <<[sub |-> "masked_attn"] @@ a>>]
    ELSE DecoderLayer_ffn(self, a, x,
            MultiHeadedAttention_forward(self.attn, x, enc, enc, enc_mask))

\* Lines 155-156 on, given the result a of the self.masked_attn call.
DecoderLayer_sublayers(self, tgt, enc, enc_mask, a) ==
    DecoderLayer_cross(self, enc, enc_mask, a, AddNorm(self.d_model, tgt, a.x))

\* DecoderLayer.forward(tgt, enc, tgt_mask, enc_mask) on shapes.
DecoderLayer_forward(self, tgt, enc, tgt_mask, enc_mask) ==
    DecoderLayer_sublayers(self, tgt, enc, enc_mask,
        MultiHeadedAttention_forward(self.masked_attn, tgt, tgt, tgt, tgt_mask))

\* ------------------------------------------- Encoder, Decoder, Transformer
Encoder_init(d_model, num_heads, num_encoders) ==
    [enc_layers |-> [n \in 1..num_encoders |-> EncoderLayer_init(d_model, num_heads)]]

Decoder_init(d_model, num_heads, num_decoders) ==
    [dec_layers |-> [n \in 1..num_decoders |-> DecoderLayer_init(d_model, num_heads)]]

\* Transformer.__init__(d_model, num_heads, num_encoders, num_decoders)
Transformer_init(d_model, num_heads, num_encoders, num_decoders) ==
    LET encoder == Encoder_init(d_model, num_heads, num_encoders)
        decoder == Decoder_init(d_model, num_heads, num_decoders)
    IN  [d_model |-> d_model, num_heads |-> num_heads,
         encoder |-> encoder, decoder |-> decoder,
         ok |-> /\ \A n \in 1..num_encoders : encoder.enc_layers[n].attn.ok
                /\ \A n \in 1..num_decoders :
                     /\ decoder.dec_layers[n].masked_attn.ok
                     /\ decoder.dec_layers[n].attn.ok]

\* The arguments Transformer.forward passes to self.decoder, in the order it
\* passes them.
Transformer_decoder_call(tgt, enc, src_mask, tgt_mask) ==
    <<tgt, enc, src_mask, tgt_mask>>

\* Decoder.forward's parameters (tgt, enc, tgt_mask, enc_mask), bound by
\* position to the arguments of a call.
Decoder_forward_bind(a) ==
    [tgt |-> a[1], enc |-> a[2], tgt_mask |-> a[3], enc_mask |-> a[4]]

\* The arguments Encoder.forward passes to a layer on an iteration.
Encoder_layer_call(x, src, src_mask) == <<x, src_mask>>

\* The arguments Decoder.forward passes to a layer on an iteration.  (The
\* first variant hands the layer the running output in place of enc.)
Decoder_layer_call_chained(x, enc, tgt_mask, enc_mask) ==
    <<x, x, tgt_mask, enc_mask>>

Decoder_layer_call(x, enc, tgt_mask, enc_mask) ==
    <<x, enc, tgt_mask, enc_mask>>

\* ----------------------------------------------------- pipeline (Spec)
\* An activation: its shape and the chain of layers that produced it.
Activation(shape, prov) == [shape |-> shape, prov |-> prov]

\* A mask of the given shape with every position valid.
ValidMask(name, batch, len) ==
    [name |-> name, shape |-> <<batch, len>>,
     at |-> [b \in 1..batch |-> [j \in 1..len |-> 1]]]

Configs ==
    {<<d, h, ne, nd>> : d \in 1..MaxDModel, h \in 0..MaxHeads,
                        ne \in 0..MaxLayers, nd \in 0..MaxLayers}
    \cup {<<DefaultDModel, DefaultNumHeads, DefaultNumEncoders, DefaultNumDecoders>>}

\* model = Transformer(d_model, num_heads, num_encoders, num_decoders)
Construct ==
    /\ pc = "new"
    /\ \E c \in Configs :
         /\ model' = Transformer_init(c[1], c[2], c[3], c[4])
         /\ pc' = IF model'.ok THEN "constructed" ELSE "init_raised"
    /\ UNCHANGED <<attn, args, frame, output, layer_idx, enc_out, calls, result>>

\* model(src, tgt, src_mask, tgt_mask) with arguments of the contract's
\* shapes: Transformer.forward calls self.encoder, whose forward starts its
\* loop with output = src.
Forward ==
    /\ pc = "constructed"
    /\ \E batch \in 1..MaxBatch, src_len \in 1..MaxLen, tgt_len \in 1..MaxLen :
         /\ args' = [src |-> Activation(<<batch, src_len, model.d_model>>, <<<<"src", 0>>>>),
                     tgt |-> Activation(<<batch, tgt_len, model.d_model>>, <<<<"tgt", 0>>>>),
                     src_mask |-> ValidMask("src_mask", batch, src_len),
                     tgt_mask |-> ValidMask("tgt_mask", batch, tgt_len)]
         /\ frame' = [src |-> args'.src, src_mask |-> args'.src_mask]
         /\ output' = args'.src
    /\ layer_idx' = 1
    /\ pc' = "encoder"
    /\ UNCHANGED <<attn, model, enc_out, calls, result>>

\* One iteration of Encoder.forward's loop: output = layer(output, src_mask)
EncoderLayerCall ==
    /\ pc = "encoder"
    /\ layer_idx <= Len(model.encoder.enc_layers)
    /\ \E a \in {Encoder_layer_call(output, frame.src, frame.src_mask)} :
       \E r \in {EncoderLayer_forward(model.encoder.enc_layers[layer_idx],
                                      a[1].shape, a[2])} :
       \E out \in {Activation(r.x, Append(a[1].prov, <<"enc", layer_idx>>))} :
           /\ calls' = Append(calls, [kind |-> "enc", idx |-> layer_idx, x |-> a[1],
                                      enc |-> a[1], mha |-> r.mha, out |-> out])
           /\ IF IsShape(r.x)
              THEN /\ output' = out
                   /\ layer_idx' = layer_idx + 1
                   /\ pc' = "encoder"
              ELSE /\ pc' = "raised"
                   /\ UNCHANGED <<output, layer_idx>>
    /\ UNCHANGED <<attn, model, args, frame, enc_out, result>>

\* Encoder.forward returns output; Transformer.forward binds it to enc_out and
\* calls self.decoder, whose forward starts its loop with output = tgt.
EncoderReturn ==
    /\ pc = "encoder"
    /\ layer_idx > Len(model.encoder.enc_layers)
    /\ enc_out' = output
    /\ frame' = Decoder_forward_bind(
                   Transformer_decoder_call(args.tgt, enc_out', args.src_mask, args.tgt_mask))
    /\ output' = frame'.tgt
    /\ layer_idx' = 1
    /\ pc' = "decoder"
    /\ UNCHANGED <<attn, model, args, calls, result>>

\* One iteration of Decoder.forward's loop:
\* output = layer(output, enc, tgt_mask, enc_mask)
DecoderLayerCall ==
    /\ pc = "decoder"
    /\ layer_idx <= Len(model.decoder.dec_layers)
    /\ \E a \in {Decoder_layer_call(output, frame.enc, frame.tgt_mask, frame.enc_mask)} :
       \E r \in {DecoderLayer_forward(model.decoder.dec_layers[layer_idx],
                                      a[1].shape, a[2].shape, a[3], a[4])} :
       \E out \in {Activation(r.x, Append(a[1].prov, <<"dec", layer_idx>>))} :
           /\ calls' = Append(calls, [kind |-> "dec", idx |-> layer_idx, x |-> a[1],
                                      enc |-> a[2], mha |-> r.mha, out |-> out])
           /\ IF IsShape(r.x)
              THEN /\ output' = out
                   /\ layer_idx' = layer_idx + 1
                   /\ pc' = "decoder"
              ELSE /\ pc' = "raised"
                   /\ UNCHANGED <<output, layer_idx>>
    /\ UNCHANGED <<attn, model, args, frame, enc_out, result>>

\* Decoder.forward returns output; Transformer.forward returns it.
DecoderReturn ==
    /\ pc = "decoder"
    /\ layer_idx > Len(model.decoder.dec_layers)
    /\ result' = output
    /\ pc' = "returned"
    /\ UNCHANGED <<attn, model, args, frame, output, layer_idx, enc_out, calls>>

InitPipeline ==
    /\ pc = "new"
    /\ model = <<>>
    /\ args = <<>>
    /\ frame = <<>>
    /\ output = <<>>
    /\ layer_idx = 0
    /\ enc_out = <<>>
    /\ calls = <<>>
    /\ result = <<>>

Init == attn = Idle /\ InitPipeline

NextAttn == EncoderLayerAttn \/ DecoderLayerMaskedAttn \/ DecoderLayerAttn

SpecAttn == Init /\ [][NextAttn]_vars

Next ==
    \/ Construct
    \/ Forward
    \/ EncoderLayerCall
    \/ EncoderReturn
    \/ DecoderLayerCall
    \/ DecoderReturn

Spec == Init /\ [][Next]_vars

\* ------------------------------------------------ attention properties
AttnCalled == attn.site # "idle"
AttnReturned == AttnCalled /\ IsShape(attn.outputs)
AttnRaised == AttnCalled /\ ~IsShape(attn.outputs)
AttnMasked == AttnCalled /\ attn.mask.name # "None"
AttnBatch == attn.q[1]
AttnTgtLen == attn.q[2]
AttnSeqLen == attn.k[2]
\* The mask value of key position j of batch item b.
MaskBit(b, j) ==
    attn.mask.at[BIdx(b, attn.mask.shape[1])][BIdx(j, attn.mask.shape[2])]
Weight(b, i, j) == attn.weights.at[b][i][j]

\* The mask has the shape the contract gives it: (batch, key length).
MaskWellShaped == attn.mask.shape = <<AttnBatch, AttnSeqLen>>

\* Query position i of batch item b has a key position it may attend to: one
\* that is valid and not later than i.
HasVisibleKey(b, i) ==
    \E j \in 1..AttnSeqLen : j <= i /\ MaskBit(b, j) = 1

\* C2: padding masking.  In any attention call with a mask, the weight from
\* every query position to a key position whose mask value is 0 is exactly
\* 0 (a defined zero, not NaN).
\* (Stated for the query positions that have a key left to attend to: a
\* fully masked query row is the degenerate case the design sets apart.)
C2_PaddedKeysGetZeroWeight ==
    (AttnReturned /\ AttnMasked /\ MaskWellShaped) =>
        \A b \in 1..AttnBatch, i \in 1..AttnTgtLen, j \in 1..AttnSeqLen :
            (MaskBit(b, j) = 0 /\ HasVisibleKey(b, i)) => IsZero(Weight(b, i, j))

\* C3: causal masking.  In a decoder self-attention call with a mask, the
\* weight from query position i to every later key position j > i is exactly
\* 0, whatever the padding mask holds.  (Stated, like C2, for the query
\* positions that have a key left to attend to.)
C3_FutureKeysGetZeroWeight ==
    (AttnReturned /\ AttnMasked /\ MaskWellShaped /\ attn.site = "decoder_self") =>
        \A b \in 1..AttnBatch, i \in 1..AttnTgtLen, j \in 1..AttnSeqLen :
            (j > i /\ HasVisibleKey(b, i)) => IsZero(Weight(b, i, j))

\* Every value of the supplied mask is 1.
AllValid ==
    \A b \in 1..attn.mask.shape[1], j \in 1..attn.mask.shape[2] :
        attn.mask.at[b][j] = 1

\* C4: softmax over the key axis.  When every mask value is 1, the weights of
\* each query position sum to 1 over the key positions.
C4_WeightsSumToOneOverKeys ==
    (AttnReturned /\ AttnMasked /\ MaskWellShaped /\ AllValid) =>
        \A b \in 1..AttnBatch, i \in 1..AttnTgtLen :
            SumsToOne([j \in 1..AttnSeqLen |-> Weight(b, i, j)])

\* C7: the causal restriction belongs to decoder self-attention only.  In
\* encoder self-attention a valid query position attends to every valid key
\* position, later ones included; a decoder cross-attention call with a
\* source mask completes for any src_len and tgt_len, and every target query
\* position attends to every valid source position.
C7_CausalOnlyInDecoderSelfAttention ==
    (AttnMasked /\ MaskWellShaped /\ attn.site \in {"encoder_self", "decoder_cross"}) =>
        /\ AttnReturned
        /\ \A b \in 1..AttnBatch, i \in 1..AttnTgtLen, j \in 1..AttnSeqLen :
             (/\ MaskBit(b, j) = 1
              /\ attn.site = "encoder_self" => MaskBit(b, i) = 1)
                 => IsPositive(Weight(b, i, j))

Constructed == pc \notin {"new", "init_raised"}
ForwardEnded == pc \in {"returned", "raised"}
NumEncoders == Len(model.encoder.enc_layers)
NumDecoders == Len(model.decoder.dec_layers)

\* Every MultiHeadedAttention the model owns.
AllAttentions ==
    {model.encoder.enc_layers[n].attn : n \in 1..NumEncoders}
    \cup {model.decoder.dec_layers[n].masked_attn : n \in 1..NumDecoders}
    \cup {model.decoder.dec_layers[n].attn : n \in 1..NumDecoders}

\* d_model is evenly divisible by num_heads.
Divisible == model.num_heads >= 1 /\ model.d_model % model.num_heads = 0

\* C1: for every valid configuration and input (d_model divisible by
\* num_heads, masks of shapes (batch, src_len) and (batch, tgt_len)),
\* Transformer.forward completes and returns shape (batch, tgt_len, d_model).
C1_ForwardReturnsTargetShape ==
    (ForwardEnded /\ Divisible) =>
        /\ pc = "returned"
        /\ result.shape = <<args.tgt.shape[1], args.tgt.shape[2], model.d_model>>

\* C5: every constructed model has d_model = num_heads * d_head in each of
\* its MultiHeadedAttention modules, and construction with d_model not
\* divisible by num_heads raises.
C5_DivisibleOrConstructionFails ==
    /\ Constructed =>
         \A m \in AllAttentions : m.d_model = m.num_heads * m.attn_output_size
    /\ (pc # "new" /\ AllAttentions # {} /\ model.num_heads >= 1 /\ ~Divisible) =>
         pc = "init_raised"

\* The attention sublayer calls of the decoder layers called so far.
DecoderAttentionCalls ==
    UNION {{calls[n].mha[m] : m \in 1..Len(calls[n].mha)} :
             n \in {n \in 1..Len(calls) : calls[n].kind = "dec"}}

\* C6: every decoder layer's self-attention is masked by target_mask and
\* its cross-attention by source_mask, the masks given to Transformer.forward.
C6_DecoderMasksNotExchanged ==
    \A c \in DecoderAttentionCalls :
        /\ c.sub = "masked_attn" => c.mask = args.tgt_mask.name
        /\ c.sub = "attn" => c.mask = args.src_mask.name

\* The attention sublayer calls of all the layers called so far.
AttentionCalls ==
    UNION {{calls[n].mha[m] : m \in 1..Len(calls[n].mha)} : n \in 1..Len(calls)}

\* C8: the tensor MultiHeadedAttention.forward gives to the output projection
\* is the heads' outputs concatenated along the feature axis: its shape is
\* (batch, tgt_len, num_heads * d_head), the position axis keeping tgt_len.
C8_HeadsConcatenatedAlongFeatures ==
    \A c \in AttentionCalls :
        IsShape(c.cat) =>
            c.cat = <<c.q[1], c.q[2], c.num_heads * c.attn_output_size>>

\* The output of the last encoder layer (the source, for an empty stack).
FinalEncoderOutput ==
    IF NumEncoders = 0 THEN args.src ELSE calls[NumEncoders].out

\* C9: within one Transformer.forward call the encoder layers run once each,
\* in order, each on its predecessor's output (the first on the source); then
\* the decoder layers run in order, each on its predecessor's output (the
\* first on the target), and each is given the final encoder output.
C9_LayersInOrderOnFinalEncoding ==
    /\ \A n \in 1..Len(calls) :
         /\ n <= NumEncoders =>
              /\ calls[n].kind = "enc"
              /\ calls[n].idx = n
              /\ calls[n].x = IF n = 1 THEN args.src ELSE calls[n - 1].out
         /\ n > NumEncoders =>
              /\ calls[n].kind = "dec"
              /\ calls[n].idx = n - NumEncoders
              /\ calls[n].x = IF n = NumEncoders + 1 THEN args.tgt ELSE calls[n - 1].out
              /\ calls[n].enc = FinalEncoderOutput
    /\ pc = "returned" =>
         /\ Len(calls) = NumEncoders + NumDecoders
         /\ result = IF NumDecoders = 0 THEN args.tgt ELSE calls[Len(calls)].out

\* A forward call through two encoder layers and two decoder layers returned.
C9_Witness ==
    /\ pc = "returned"
    /\ NumEncoders = 2
    /\ NumDecoders = 2
    /\ Len(calls) = 4

====
